---- MODULE Spec2Model ----
(***************************************************************************)
(* artemiss: a periodic multi-worker probe loop (src/main.rs).             *)
(*                                                                         *)
(* main dispatches to http_main or db_main (the supervisor).  The          *)
(* supervisor extracts its configuration, builds the probes, creates an    *)
(* mpsc channel, spawns `parallel` tokio tasks (the workers), each holding *)
(* a clone of the channel's sender, drops its own sender and awaits        *)
(* recv(), which returns once every sender clone has been dropped.         *)
(*                                                                         *)
(* A worker creates a tokio `time::interval` (first tick immediate,        *)
(* missed ticks replayed back to back: MissedTickBehavior::Burst is the    *)
(* default; a zero period panics) and loops: await the tick, then          *)
(*   - HTTP: await client.get(url).send(), log an error record on Err;     *)
(*   - DB:   hand mysql::Conn::new + ping to spawn_blocking and go on      *)
(*           without awaiting the task.                                    *)
(*                                                                         *)
(* Time is discrete.  The clock itself is not stored: each timer keeps     *)
(* the distance `due` from now to its next deadline (<= 0: the tick is     *)
(* ready, the deadline lies -due units in the past).  A panic unwinds the  *)
(* panicking task only (the default Cargo profile).  A DB worker whose     *)
(* MaxInflight blocking attempts are all pending waits for one of them to  *)
(* end: blocking attempts are bounded by the connect timeout.              *)
(*                                                                         *)
(* A time unit is half the default interval (50 ms): --interval-ms 100 is  *)
(* 2 units, the default --timeout-ms 20 is below one unit, so a request    *)
(* under the default timeout is over before the clock moves.               *)
(***************************************************************************)
EXTENDS Integers, Sequences, FiniteSets

\* ---------------------------------------------------------------- bounds
MaxParallel == 2    \* largest --parallel value explored (ScenarioSpec: one more)
MaxLag == 2         \* how far (time units) a timer's deadline may fall behind now
MaxInflight == 2    \* blocking DB attempts of one worker that may be pending at once
MaxWindow == 7      \* length (time units) of the observation window of WindowSpec

Workers == 1..(MaxParallel + 1)
Modes == {"http", "db"}
IntervalChoices == {0, 1, 2}    \* --interval-ms, in time units
TimeoutChoices == {0, 1, 2}     \* --timeout-ms (HttpArgs only), in time units

\* The elapsed-time observer saturates at the largest interval or timeout: it
\* is only ever compared with interval_ms and timeout_ms.
MaxGap ==
    CHOOSE m \in IntervalChoices \cup TimeoutChoices :
        \A i \in IntervalChoices \cup TimeoutChoices : i <= m

\* Value of `clock` when no observation window is open (a window's clock
\* runs from 0 to MaxWindow).
NoClock == MaxWindow + 1

VARIABLES
    mode,        \* Commands::Http or Commands::Db
    parallel,    \* args.parallel
    interval_ms, \* args.interval_ms
    timeout_ms,  \* args.timeout_ms (http_main; db_main has none)
    supPc,       \* position of http_main / db_main
    clients,     \* HTTP: the Vec of built clients (resource ids)
    sendHeld,    \* the supervisor's `send` exists and is not dropped
    spawned,     \* number of workers spawned so far (the for loop's position)
    wpc,         \* position of each worker task
    done,        \* worker holds its clone of the sender (`_done`)
    probe,       \* resource the worker is bound to (client / builder clone), 0 = none
    due,         \* distance from now to the worker timer's next deadline
    inflight,    \* DB: blocking attempt tasks spawned by the worker and not finished
    lastLog,     \* the record most recently handed to the log sink ("none": none yet)
    since,       \* observer: time since spawn (before the first attempt) or since
                 \* the start of the latest attempt, saturating at MaxGap
    tried,       \* observer: the worker has started at least one attempt
    clock,       \* observer: time passed in the observation window, or NoClock
    attempts     \* observer: attempts each worker has started in the window

vars == <<mode, parallel, interval_ms, timeout_ms, supPc, clients, sendHeld,
          spawned, wpc, done, probe, due, inflight, lastLog, since, tried,
          clock, attempts>>

cfgVars == <<mode, parallel, interval_ms, timeout_ms>>
obsVars == <<clock, attempts>>
workerVars == <<wpc, done, probe, due, inflight, since, tried>>

Min(a, b) == IF a < b THEN a ELSE b

\* The state after Cli::parse(): the configuration is any the flags can give
\* (--parallel among pars, --timeout-ms among touts), nothing is built or
\* spawned yet.
Start(pars, touts) ==
    /\ mode \in Modes
    /\ parallel \in pars
    /\ interval_ms \in IntervalChoices
    /\ timeout_ms \in (IF mode = "http" THEN touts ELSE {0})
    /\ supPc = "extract"
    /\ clients = <<>>
    /\ sendHeld = FALSE
    /\ spawned = 0
    /\ wpc = [w \in Workers |-> "none"]
    /\ done = [w \in Workers |-> FALSE]
    /\ probe = [w \in Workers |-> 0]
    /\ due = [w \in Workers |-> 0]
    /\ inflight = [w \in Workers |-> 0]
    /\ lastLog = "none"
    /\ since = [w \in Workers |-> 0]
    /\ tried = [w \in Workers |-> FALSE]
    /\ attempts = [w \in Workers |-> 0]

Init == Start(0..MaxParallel, TimeoutChoices) /\ clock = NoClock

\* The same start, observed: the clock and the attempt counters run.
WindowInit == Start(0..MaxParallel, TimeoutChoices) /\ clock = 0

\* The end-to-end scenario, observed: --timeout-ms left at its default (below
\* one time unit), up to one worker more.
ScenarioInit == Start(0..(MaxParallel + 1), {0}) /\ clock = 0

\* ------------------------------------------------------------ supervisor
\* Variant: the Vec is handed on as soon as it holds one client (clients built
\* lazily instead of all before the spawn loop).
CollectDone_First(cs) == Len(cs) >= Min(1, parallel)

\* `.collect()` (main.rs:174) yields the Vec only once every one of the
\* `parallel` clients has been built.
CollectDone(cs) == Len(cs) = parallel

\* Iterations of the spawn loop: `clients.iter().take(args.parallel)` in
\* http_main, `0..args.parallel` in db_main.
SpawnCount ==
    IF mode = "http" THEN Min(Len(clients), parallel) ELSE parallel

\* Variant: every worker is handed a clone of the same, first, probe.
ProbeFor_Shared(w) ==
    IF mode = "http" THEN clients[1] ELSE 1

\* The probe a worker is bound to: http_main clones the w-th client of the Vec
\* (a reqwest Client clone shares the original's connection pool, so it is the
\* same resource); db_main clones the builder, a value of its own per worker.
ProbeFor(w) ==
    IF mode = "http" THEN clients[w] ELSE w

\* Variant: recv() returns as soon as the first worker lets go of its sender.
ChannelClosed_Any ==
    /\ ~sendHeld
    /\ \E w \in Workers : wpc[w] # "none" /\ ~done[w]

\* Variant: the workers hold no sender clone, only the supervisor's counts.
ChannelClosed_SupOnly == ~sendHeld

\* recv() returns None once the channel is closed: the supervisor's sender is
\* dropped and so is every clone moved into a worker task.  Nothing is ever
\* sent on the channel.
ChannelClosed ==
    /\ ~sendHeld
    /\ \A w \in Workers : ~done[w]

\* Figment .extract().expect(...): a failure panics in main.
Extract(ok) ==
    /\ supPc = "extract"
    /\ supPc' = IF ~ok THEN "panicked"
                ELSE IF mode = "db" THEN "resolve"
                ELSE IF CollectDone(clients) THEN "channel" ELSE "build"
    /\ UNCHANGED <<cfgVars, clients, sendHeld, spawned, workerVars, lastLog, obsVars>>

\* db_main: args.database_url.expect(...) and Opts::from_url(&url).unwrap().
ResolveTarget(ok) ==
    /\ supPc = "resolve"
    /\ supPc' = IF ok THEN "channel" ELSE "panicked"
    /\ UNCHANGED <<cfgVars, clients, sendHeld, spawned, workerVars, lastLog, obsVars>>

\* http_main: one ClientBuilder::new()...build().expect(...) of the map/collect.
BuildClient(ok) ==
    /\ supPc = "build"
    /\ IF ok
       THEN /\ clients' = Append(clients, Len(clients) + 1)
            /\ supPc' = IF CollectDone(clients') THEN "channel" ELSE "build"
       ELSE /\ clients' = clients
            /\ supPc' = "panicked"
    /\ UNCHANGED <<cfgVars, sendHeld, spawned, workerVars, lastLog, obsVars>>

\* let (send, mut recv) = mpsc::channel::<()>(1);
Channel ==
    /\ supPc = "channel"
    /\ sendHeld' = TRUE
    /\ supPc' = IF spawned < SpawnCount THEN "spawn" ELSE "drop_send"
    /\ UNCHANGED <<cfgVars, clients, spawned, workerVars, lastLog, obsVars>>

\* One iteration of the for loop: clone the probe and the sender, tokio::spawn.
Spawn ==
    /\ supPc = "spawn"
    /\ spawned < SpawnCount
    /\ LET w == spawned + 1 IN
        /\ wpc' = [wpc EXCEPT ![w] = "start"]
        /\ done' = [done EXCEPT ![w] = TRUE]
        /\ probe' = [probe EXCEPT ![w] = ProbeFor(w)]
        /\ since' = [since EXCEPT ![w] = 0]
        /\ spawned' = w
        /\ supPc' = IF w < SpawnCount THEN "spawn" ELSE "drop_send"
    /\ UNCHANGED <<cfgVars, clients, sendHeld, due, inflight, lastLog, tried, obsVars>>

\* drop(send);
DropSend ==
    /\ supPc = "drop_send"
    /\ sendHeld' = FALSE
    /\ supPc' = "recv"
    /\ UNCHANGED <<cfgVars, clients, spawned, workerVars, lastLog, obsVars>>

\* let _ = recv.recv().await;  and the supervisor returns.
Recv ==
    /\ supPc = "recv"
    /\ ChannelClosed
    /\ supPc' = "returned"
    /\ UNCHANGED <<cfgVars, clients, sendHeld, spawned, workerVars, lastLog, obsVars>>

\* The process has ended: main returned, or a panic unwound main.
Exited == supPc \in {"returned", "panicked"}

\* The exit status of an ended process: 0 when the async main returns, 101
\* when it panics (Rust's status for a panic of the main thread).
ExitCode == IF supPc = "returned" THEN 0 ELSE 101

\* ---------------------------------------------------------------- worker
\* time::interval(period) asserts period > 0.
IntervalPanics(p) == p = 0

\* Variant: time::interval_at(now + period, period), a first tick one period
\* after creation.
FirstDeadline_Delayed(p) == p

\* time::interval(period): the first tick completes immediately.
FirstDeadline(p) == 0

\* Variant: one timer serves all the workers in turn, so that a worker gets
\* every parallel-th tick.
NextDeadline_SharedTimer(d, p) == d + p * parallel

\* MissedTickBehavior::Burst (the default): the next deadline is the previous
\* deadline plus the period, however late the tick was taken.
NextDeadline(d, p) == d + p

\* First poll of the task: `let _done = done;` then time::interval(...).  On a
\* panic the task unwinds and `_done` is dropped.
WorkerStart(w) ==
    /\ wpc[w] = "start"
    /\ IF IntervalPanics(interval_ms)
       THEN /\ wpc' = [wpc EXCEPT ![w] = "dead"]
            /\ done' = [done EXCEPT ![w] = FALSE]
            /\ due' = due
       ELSE /\ wpc' = [wpc EXCEPT ![w] = "tick"]
            /\ done' = done
            /\ due' = [due EXCEPT ![w] = FirstDeadline(interval_ms)]
    /\ UNCHANGED <<cfgVars, supPc, clients, sendHeld, spawned, probe, inflight,
                   lastLog, since, tried, obsVars>>

\* Variant: the worker awaits the JoinHandle of spawn_blocking, as it awaits
\* the request in http_main.
AfterTick_Await(w) == "send"

\* What the worker does once interval.tick() has completed: http_main awaits
\* the request inside the loop; db_main hands the attempt to spawn_blocking and
\* loops without awaiting the JoinHandle.
AfterTick(w) == IF mode = "http" THEN "send" ELSE "tick"

\* interval.tick().await completes and the attempt is issued.
TickFire(w) ==
    /\ wpc[w] = "tick"
    /\ due[w] <= 0
    /\ mode = "db" => inflight[w] < MaxInflight
    /\ due' = [due EXCEPT ![w] = NextDeadline(due[w], interval_ms)]
    /\ wpc' = [wpc EXCEPT ![w] = AfterTick(w)]
    /\ inflight' = IF AfterTick(w) = "send" THEN inflight
                   ELSE [inflight EXCEPT ![w] = inflight[w] + 1]
    /\ since' = [since EXCEPT ![w] = 0]
    /\ tried' = [tried EXCEPT ![w] = TRUE]
    /\ attempts' = IF clock = NoClock THEN attempts
                   ELSE [attempts EXCEPT ![w] = attempts[w] + 1]
    /\ UNCHANGED <<cfgVars, supPc, clients, sendHeld, spawned, done, probe,
                   lastLog, clock>>

\* Variant: the Err arm leaves the loop (break / `?`), ending the task.
AfterAttempt_Stop(w, ok) == IF ok THEN "tick" ELSE "dead"

\* Where the worker goes when its HTTP attempt has returned: both match arms
\* (Ok(_) => {} and Err(e) => error!(...)) fall through to the loop.
AfterAttempt(w, ok) == "tick"

\* The log sink after the match: Ok(_) => {} writes nothing, Err(e) => error!(
\* "request error: ...").
HttpLog(ok) == IF ok THEN lastLog ELSE "request_error"

\* What the network can answer to one GET.
HttpResults == {"status_2xx", "status_500", "conn_refused", "timed_out"}

\* Variant: the response is passed through error_for_status().
SendOk_StatusChecked(r) == r = "status_2xx"

\* client.get(&url).send().await is Ok(response) for every response received,
\* whatever its status, and Err for a connect/protocol failure or a timeout.
SendOk(r) == r \in {"status_2xx", "status_500"}

\* Variant: an Err is propagated (`?`) through the task's JoinHandle to the
\* supervisor, which gives up.
AttemptDone_Escalate(w, ok) ==
    /\ mode = "http"
    /\ wpc[w] = "send"
    /\ wpc' = [wpc EXCEPT ![w] = IF ok THEN "tick" ELSE "dead"]
    /\ done' = [done EXCEPT ![w] = ok]
    /\ lastLog' = HttpLog(ok)
    /\ supPc' = IF ok THEN supPc ELSE "panicked"
    /\ UNCHANGED <<cfgVars, clients, sendHeld, spawned, probe, due,
                   inflight, since, tried, obsVars>>

\* client.get(&url).send().await returns Ok or Err.
AttemptDone(w, ok) ==
    /\ mode = "http"
    /\ wpc[w] = "send"
    /\ wpc' = [wpc EXCEPT ![w] = AfterAttempt(w, ok)]
    /\ done' = [done EXCEPT ![w] = AfterAttempt(w, ok) # "dead"]
    /\ lastLog' = HttpLog(ok)
    /\ UNCHANGED <<cfgVars, supPc, clients, sendHeld, spawned, probe, due,
                   inflight, since, tried, obsVars>>

DbResults == {"ping_ok", "ping_failed", "conn_err"}

\* The record the blocking closure writes: debug!("... ping successful"),
\* debug!("... ping failed") or error!("mysql connection create error: ...").
DbLog(r) ==
    IF r = "ping_ok" THEN "debug_ping_successful"
    ELSE IF r = "ping_failed" THEN "debug_ping_failed"
    ELSE "conn_create_error"

\* A blocking attempt of worker w ends: Conn::new and ping.
BlockingDone(w, r) ==
    /\ mode = "db"
    /\ inflight[w] > 0
    /\ inflight' = [inflight EXCEPT ![w] = inflight[w] - 1]
    /\ lastLog' = DbLog(r)
    /\ UNCHANGED <<cfgVars, supPc, clients, sendHeld, spawned, wpc, done, probe,
                   due, since, tried, obsVars>>

\* ------------------------------------------------------------------ time
HasTimer(w) == wpc[w] \in {"tick", "send"}
Alive(w) == wpc[w] \in {"start", "tick", "send"}

\* A worker task that tokio can poll right now: it was spawned and not yet
\* polled, or its tick is due.
Ready(w) ==
    \/ wpc[w] = "start"
    \/ wpc[w] = "tick" /\ due[w] <= 0

\* One time unit passes.  The runtime polls a ready task at once (its latency is
\* far below a time unit), so time passes only when no worker is ready; the
\* spawn loop has no await point and is over within the unit it started in.  A
\* request is over when its timeout has run out, and before its worker's timer
\* is MaxLag behind.  An observation window ends after MaxWindow units.
Advance ==
    /\ \E w \in Workers : Alive(w)
    /\ supPc # "spawn"
    /\ \A w \in Workers : ~Ready(w)
    /\ \A w \in Workers : wpc[w] = "send" => since[w] < timeout_ms
    /\ \A w \in Workers : HasTimer(w) => due[w] > -MaxLag
    /\ clock # MaxWindow
    /\ due' = [w \in Workers |-> IF HasTimer(w) THEN due[w] - 1 ELSE due[w]]
    /\ since' = [w \in Workers |->
                    IF Alive(w) THEN Min(since[w] + 1, MaxGap) ELSE since[w]]
    /\ clock' = IF clock = NoClock THEN NoClock ELSE clock + 1
    /\ UNCHANGED <<cfgVars, supPc, clients, sendHeld, spawned, wpc, done, probe,
                   inflight, lastLog, tried, attempts>>

Next ==
    \/ \E ok \in BOOLEAN : Extract(ok)
    \/ \E ok \in BOOLEAN : ResolveTarget(ok)
    \/ \E ok \in BOOLEAN : BuildClient(ok)
    \/ Channel
    \/ Spawn
    \/ DropSend
    \/ Recv
    \/ \E w \in Workers : WorkerStart(w)
    \/ \E w \in Workers : TickFire(w)
    \/ \E w \in Workers, r \in HttpResults : AttemptDone(w, SendOk(r))
    \/ \E w \in Workers, r \in DbResults : BlockingDone(w, r)
    \/ Advance

Spec == Init /\ [][Next]_vars

WindowSpec == WindowInit /\ [][Next]_vars

ScenarioSpec == ScenarioInit /\ [][Next]_vars

\* The spawn loop runs to its end (it has no await point), tokio polls every
\* ready task, every attempt ends (Ok, Err or its timeout) and time passes.
Fairness ==
    /\ WF_vars(Spawn)
    /\ \A w \in Workers : WF_vars(WorkerStart(w))
    /\ \A w \in Workers : WF_vars(TickFire(w))
    /\ \A w \in Workers : WF_vars(\E ok \in BOOLEAN : AttemptDone(w, ok))
    /\ \A w \in Workers : WF_vars(\E r \in DbResults : BlockingDone(w, r))
    /\ WF_vars(Advance)

LiveSpec == Spec /\ Fairness

\* ---------------------------------------------------------------- claims
\* Attempts of worker w that have started and not returned.
InFlight(w) == (IF wpc[w] = "send" THEN 1 ELSE 0) + inflight[w]

SpawnedWorkers == {w \in Workers : wpc[w] # "none"}

\* C1: in both modes every worker has at most one attempt in flight at every
\* reachable state.
C1_SingleFlight == \A w \in Workers : InFlight(w) <= 1

\* An attempt of worker w ends in an error in this step.
AttemptFails(w) ==
    \/ AttemptDone(w, FALSE)
    \/ \E r \in DbResults \ {"ping_ok"} : BlockingDone(w, r)

\* C2: a step in which an attempt of a worker fails leaves that worker waiting
\* for its next tick, still holding its sender (never stopped), and a worker
\* that has entered its loop issues attempts again and again, for ever.
C2_FailureKeepsWorker ==
    /\ [][\A w \in Workers :
            AttemptFails(w) => (wpc'[w] = "tick" /\ done'[w])]_vars
    /\ \A w \in Workers : [](~HasTimer(w)) \/ []<><<TickFire(w)>>_vars

\* C2 witness: the only worker's request failed (its error record is the last
\* one written) and that worker is inside a further attempt.
C2_Witness ==
    /\ mode = "http"
    /\ parallel = 1
    /\ supPc = "recv"
    /\ lastLog = "request_error"
    /\ wpc[1] = "send"
    /\ done[1]

\* C3: whenever the supervisor has returned, no spawned worker is alive and
\* none holds its clone of the sender.
C3_JoinBarrier ==
    supPc = "returned" => \A w \in Workers : ~Alive(w) /\ ~done[w]

\* C3 witness: the supervisor has returned after spawning two workers, both of
\* which have ended.
C3_Witness ==
    /\ supPc = "returned"
    /\ spawned >= 2
    /\ \A w \in 1..spawned : wpc[w] = "dead"

\* C5: whenever the supervisor has returned, no attempt of any worker is in
\* flight; while an attempt is in flight the supervisor does not return.
C5_BarrierCoversAttempts ==
    supPc = "returned" => \A w \in Workers : InFlight(w) = 0

\* C5 witness: the supervisor waits at the barrier while each of two workers
\* is inside an attempt.
C5_Witness ==
    /\ supPc = "recv"
    /\ spawned >= 2
    /\ \A w \in 1..spawned : InFlight(w) >= 1

\* C6: for N >= 1, once the spawn loop is over exactly N workers are spawned
\* and exactly N probes exist, and at every state no two spawned workers are
\* bound to the same probe.
C6_OneProbePerWorker ==
    /\ \A v, w \in SpawnedWorkers : v # w => probe[v] # probe[w]
    /\ \A w \in SpawnedWorkers : probe[w] # 0
    /\ (parallel >= 1 /\ supPc \in {"drop_send", "recv", "returned"}) =>
          /\ spawned = parallel
          /\ Cardinality(SpawnedWorkers) = parallel
          /\ Cardinality({probe[w] : w \in SpawnedWorkers}) = parallel
          /\ mode = "http" => Len(clients) = parallel

\* C6 witness: two workers, each in an attempt on its probe, in HTTP mode.
C6_Witness ==
    /\ mode = "http"
    /\ parallel = 2
    /\ supPc = "recv"
    /\ \A w \in 1..2 : wpc[w] = "send"

\* C7: with parallel = 0 startup is rejected: the supervisor never gets as far
\* as a normal return and no worker is spawned.
C7_ZeroParallelRejected ==
    parallel = 0 => (supPc # "returned" /\ spawned = 0)

C9_NoCatchUpBurst ==
    [][\A w \in Workers :
          (TickFire(w) /\ tried[w]) => since[w] >= interval_ms]_vars

\* C10 as stated: the first attempt of a worker never starts less than one
\* interval after the worker was spawned.
C10_FirstTickAfterInterval ==
    [][\A w \in Workers :
          (TickFire(w) /\ ~tried[w]) => since[w] >= interval_ms]_vars

\* C10 as amended: from the creation of its timer until its first attempt a
\* worker's tick is ready (the first tick is due at once, not one interval
\* later), and creating one worker's timer leaves every other timer alone.
C10_FirstTickImmediate ==
    /\ [](\A w \in Workers : (wpc[w] = "tick" /\ ~tried[w]) => due[w] <= 0)
    /\ [][\A w \in Workers :
            WorkerStart(w) => \A v \in Workers \ {w} : due'[v] = due[v]]_vars

\* C10 witness: a worker has just created its timer, no time has passed since
\* it was spawned and its tick is ready, while another worker's timer is at a
\* different phase.
C10_Witness ==
    \E w, v \in Workers :
        /\ wpc[w] = "tick" /\ ~tried[w] /\ since[w] = 0 /\ due[w] = 0
        /\ HasTimer(v) /\ tried[v] /\ due[v] # due[w]

\* The records of level error, which carry the error detail and the configured
\* timeouts: error!("request error: {}. connect_timeout={}ms timeout={}ms") and
\* error!("mysql connection create error: {}. connect_timeout={}ms").
ErrorRecords == {"request_error", "conn_create_error"}

\* C11: a step in which an attempt fails, in either mode and a DB connection
\* whose ping fails included, hands an error record to the log sink and leaves
\* the worker waiting for its next tick.
C11_FailureLogsError ==
    [][\A w \in Workers :
          AttemptFails(w) => (lastLog' \in ErrorRecords /\ wpc'[w] = "tick")]_vars

\* C11, HTTP mode only (holds): a failed request writes the error record.
C11_HttpFailureLogsError ==
    [][\A w \in Workers :
          AttemptDone(w, FALSE) =>
              (lastLog' \in ErrorRecords /\ wpc'[w] = "tick")]_vars

\* C12: when a request returns, any response received, whatever its status,
\* writes no record (the attempt is a success), and a connection failure or a
\* timeout writes the request-error record; in both cases the worker goes on
\* to its next tick.
C12_StatusIsNotAnError ==
    [][\A w \in Workers : \A r \in HttpResults :
          AttemptDone(w, SendOk(r)) =>
              /\ r \in {"status_2xx", "status_500"} => lastLog' = lastLog
              /\ r \in {"conn_refused", "timed_out"} => lastLog' = "request_error"
              /\ wpc'[w] = "tick"]_vars

\* C12 witness: the only worker has made an attempt that returned, and no
\* record has been written: the attempt counted as a success.
C12_Witness ==
    /\ mode = "http"
    /\ parallel = 1
    /\ supPc = "recv"
    /\ tried[1]
    /\ wpc[1] = "tick"
    /\ lastLog = "none"

\* The process has neither exited nor crashed as far as worker w is concerned:
\* the supervisor is still running and the worker's task has not ended.
Running(w) ==
    /\ supPc \notin {"returned", "panicked"}
    /\ wpc[w] # "dead"

\* C13 as stated: at every instant of an observation window a spawned worker
\* has made at least floor(runtime / interval) attempts, whatever the duration
\* and outcome of its attempts, and the process has not exited or crashed.
C13_AttemptsWhateverDuration ==
    \A w \in SpawnedWorkers :
        interval_ms >= 1 =>
            /\ attempts[w] >= clock \div interval_ms
            /\ Running(w)

\* C13 as amended: the same, provided that in HTTP mode no request outlasts
\* one interval (the timeout is at most the interval); in DB mode whatever the
\* duration of the attempts.
C13_AttemptsKeepPace ==
    \A w \in SpawnedWorkers :
        (interval_ms >= 1 /\ (mode = "http" => timeout_ms <= interval_ms)) =>
            /\ attempts[w] >= clock \div interval_ms
            /\ Running(w)

\* C13 witness: four time units into the window, a worker whose requests last
\* up to one unit and fail (the error record is the last one written) has made
\* its attempts at an interval of two units.
C13_Witness ==
    /\ mode = "http"
    /\ interval_ms = 2
    /\ timeout_ms = 1
    /\ clock = 4
    /\ lastLog = "request_error"
    /\ attempts[1] >= 3

\* C14: with 3 workers and an interval of 100 ms (2 time units), once 350 ms
\* (7 units) have passed every worker has made at least 3 attempts, and at every
\* instant the attempt counts of any two workers differ by at most 1.
C14_ThreeWorkersKeepStep ==
    (parallel = 3 /\ interval_ms = 2) =>
        /\ clock >= 7 => \A w \in 1..parallel : attempts[w] >= 3
        /\ \A v, w \in 1..parallel :
              /\ attempts[v] - attempts[w] <= 1
              /\ attempts[w] - attempts[v] <= 1

\* C14 witness: the scenario's HTTP run after 350 ms, three workers having
\* made their attempts.
C14_Witness ==
    /\ mode = "http"
    /\ parallel = 3
    /\ interval_ms = 2
    /\ clock = 7
    /\ supPc = "recv"
    /\ \A w \in 1..3 : attempts[w] >= 3 /\ HasTimer(w)

\* A cancellation has been issued.  The program has none: it installs no
\* signal handler, nothing is ever sent on the channel and the worker loops
\* have no exit.
Cancelled == FALSE

\* C15: a process that ended on a startup failure has a nonzero exit code,
\* and a process that ended with exit code 0 was cancelled before.
C15_ExitZeroOnlyAfterCancel ==
    /\ supPc = "panicked" => ExitCode # 0
    /\ (Exited /\ ExitCode = 0) => Cancelled

\* C15, first half only (holds): a startup failure ends the process with a
\* nonzero exit code.
C15_StartupFailureNonzero ==
    supPc = "panicked" => (Exited /\ ExitCode # 0)

\* A step of worker w's loop: its tick with the start of an attempt, or the
\* end (Ok or Err) of one of its attempts.
WorkerStep(w) ==
    \/ TickFire(w)
    \/ \E ok \in BOOLEAN : AttemptDone(w, ok)
    \/ \E r \in DbResults : BlockingDone(w, r)

\* C16: a tick, an attempt or an attempt error of worker w leaves every other
\* worker's state (task position, sender, probe, timer, attempts in flight)
\* and the supervisor's state unchanged; only the log sink is shared.
C16_WorkerIsolation ==
    [][\A w \in Workers :
          WorkerStep(w) =>
              /\ \A v \in Workers \ {w} :
                    /\ wpc'[v] = wpc[v]
                    /\ done'[v] = done[v]
                    /\ probe'[v] = probe[v]
                    /\ due'[v] = due[v]
                    /\ inflight'[v] = inflight[v]
              /\ probe'[w] = probe[w]
              /\ UNCHANGED <<supPc, clients, sendHeld, spawned>>]_vars

\* C16 witness: a worker's request has failed (its error record is the last
\* one written) and it waits for its next tick, while the other worker is
\* still inside its own attempt and the supervisor waits at the barrier.
C16_Witness ==
    /\ mode = "http"
    /\ supPc = "recv"
    /\ lastLog = "request_error"
    /\ \E w, v \in Workers :
          /\ wpc[w] = "tick" /\ tried[w] /\ done[w]
          /\ wpc[v] = "send" /\ done[v]

\* C17: with at least one worker configured the supervisor never returns.
C17_SupervisorNeverReturns ==
    parallel >= 1 => supPc # "returned"

\* C17 for intervals above zero (holds): the supervisor never returns.
C17_NeverReturnsPositiveInterval ==
    (parallel >= 1 /\ interval_ms >= 1) => supPc # "returned"

\* C18: in DB mode a worker with a timer is always at its tick, never waiting
\* for an attempt; its tick starts one more attempt whatever the number of its
\* attempts still running; and the end of an attempt task changes neither a
\* worker's position nor which senders are held.
C18_DbTickNeverBlocked ==
    /\ [](mode = "db" => \A w \in Workers : HasTimer(w) => wpc[w] = "tick")
    /\ [][\A w \in Workers :
            (mode = "db" /\ TickFire(w)) =>
                /\ inflight'[w] = inflight[w] + 1
                /\ wpc'[w] = "tick"]_vars
    /\ [][\A w \in Workers :
            (\E r \in DbResults : BlockingDone(w, r)) =>
                UNCHANGED <<wpc, done, sendHeld, supPc>>]_vars

\* C18 witness: a DB worker is at its tick, holding its sender, with two of
\* its attempts still running.
C18_Witness ==
    /\ mode = "db"
    /\ supPc = "recv"
    /\ \E w \in Workers :
          /\ wpc[w] = "tick"
          /\ done[w]
          /\ inflight[w] >= 2

\* C19: for every configuration with parallel >= 1 and durations >= 0, no
\* spawned worker's task has ended, and a worker that was polled is in its
\* tick loop.
C19_WorkersEnterLoop ==
    parallel >= 1 =>
        \A w \in SpawnedWorkers : wpc[w] # "dead" /\ (wpc[w] # "start" => HasTimer(w))

\* C19 for intervals above zero (holds).
C19_EnterLoopPositiveInterval ==
    (parallel >= 1 /\ interval_ms >= 1) =>
        \A w \in SpawnedWorkers : wpc[w] # "dead" /\ (wpc[w] # "start" => HasTimer(w))

====
